---- MODULE Spec2Model ----
\* A model of sudoku.py: construction of a Board from an array of strings
\* (Cell, Row, Board and their attrs validators), the backtracking solver
\* Board.solve with its helpers get_empty_cell and is_valid, and the loader
\* generate_board_from_file_path.
\*
\* Python strings are sequences of one-character strings; a Board is
\* represented by the values of its cells, board[y + 1][x + 1] being
\* rows[y].cells[x].value; x, y and the values are the program's 0-based
\* integers.
EXTENDS Integers, Sequences, FiniteSets, TLC

\* ---------------------------------------------------------------- sizes

\* The 9 of the validators (0 <= v < 9, len(v) != 9) and of range(0, 9, 3).
N == 9

\* grid_length of Board.__attrs_post_init__.
grid_length == 3

\* ---------------------------------------------------------------- bounds

\* How many cells of the solved grid are re-filled (with 0 or with one of the
\* removed digits) to make the family of puzzles.
MaxHoles == 4

\* How many times solve() is called on the boards of one input.
MaxRuns == 2

\* How far the number of rows and the length of a row stray from 9 in the
\* inputs of the construction.
MaxExtra == 1

\* The greatest number of puzzles in a file.
MaxPuzzles == 2

\* ---------------------------------------------------------------- strings

DigitChars == <<"0", "1", "2", "3", "4", "5", "6", "7", "8", "9">>

Whitespace == {" ", "\n"}

IsDigitChar(c) == \E i \in 1..Len(DigitChars) : DigitChars[i] = c

DigitValue(c) == (CHOOSE i \in 1..Len(DigitChars) : DigitChars[i] = c) - 1

\* str.strip(): the string without its leading and trailing whitespace.
RECURSIVE lstrip(_)
lstrip(s) ==
    IF s # <<>> /\ Head(s) \in Whitespace THEN lstrip(Tail(s)) ELSE s

RECURSIVE rstrip(_)
rstrip(s) ==
    IF s # <<>> /\ s[Len(s)] \in Whitespace
    THEN rstrip(SubSeq(s, 1, Len(s) - 1))
    ELSE s

strip(s) == rstrip(lstrip(s))

\* str.startswith with a one-character prefix.
startswith(s, c) == s # <<>> /\ Head(s) = c

\* The value of a string of decimal digits, most significant first.
RECURSIVE DecimalValue(_)
DecimalValue(ds) ==
    IF ds = <<>> THEN 0
    ELSE 10 * DecimalValue(SubSeq(ds, 1, Len(ds) - 1)) + DigitValue(ds[Len(ds)])

\* int(s), the converter of Cell.value: surrounding whitespace is dropped, one
\* sign is allowed, and what is left must be one or more decimal digits; any
\* other string raises ValueError.
py_int(s) ==
    LET t == strip(s)
        signed == t # <<>> /\ Head(t) \in {"+", "-"}
        ds == IF signed THEN Tail(t) ELSE t
    IN  IF ds # <<>> /\ \A i \in 1..Len(ds) : IsDigitChar(ds[i])
        THEN [err |-> "none",
              val |-> IF signed /\ Head(t) = "-"
                      THEN 0 - DecimalValue(ds) ELSE DecimalValue(ds)]
        ELSE [err |-> "ValueError", val |-> 0]

\* range(a, b) as the sequence a, a + 1, ..., b - 1.
range(a, b) == [i \in 1..(b - a) |-> a + i - 1]

\* ---------------------------------------------------------------- Cell

\* Cell.x_range: the message of the ValueError it means to raise reads the
\* name x, which is bound neither in the method nor in the module, so the
\* raise statement itself fails with NameError.
x_range(value) == IF 0 <= value /\ value < N THEN "none" ELSE "NameError"

\* Cell.y_range: as x_range, with the unbound name y.
y_range(value) == IF 0 <= value /\ value < N THEN "none" ELSE "NameError"

\* Cell.value_range.
value_range(v) == IF 0 <= v /\ v <= 9 THEN "none" ELSE "ValueError"

\* Cell(x=x, y=y, value=value): the generated __init__ stores the attributes,
\* running the converter of value, and then runs the validators in the order
\* of the attributes x, y, value; the first failure is the one raised.
Cell(x, y, value) ==
    LET conv == py_int(value)
    IN  IF conv.err # "none" THEN [err |-> conv.err, value |-> 0]
        ELSE IF x_range(x) # "none" THEN [err |-> x_range(x), value |-> 0]
        ELSE IF y_range(y) # "none" THEN [err |-> y_range(y), value |-> 0]
        ELSE IF value_range(conv.val) # "none"
             THEN [err |-> value_range(conv.val), value |-> 0]
        ELSE [err |-> "none", value |-> conv.val]

\* Cell.from_str_value.
from_str_value(x, y, str_value) == Cell(x, y, str_value)

\* Cell.is_empty, on the value of the cell.
is_empty(value) == value = 0

\* ---------------------------------------------------------------- Row

\* Row.validate_ix.
validate_ix(v) == IF 0 <= v /\ v < N THEN "none" ELSE "ValueError"

\* validate_cells refusing only the rows that are too long.
validate_cells_too_long(v) == IF Len(v) > N THEN "ValueError" ELSE "none"

\* Row.validate_cells.
validate_cells(v) == IF Len(v) # N THEN "ValueError" ELSE "none"

\* The first error of a sequence of results, "none" when there is none.
RECURSIVE FirstError(_)
FirstError(rs) ==
    IF rs = <<>> THEN "none"
    ELSE IF Head(rs).err # "none" THEN Head(rs).err
    ELSE FirstError(Tail(rs))

\* Row.from_array: the cells are built left to right, x counting from 0, and
\* the first cell that fails ends the construction; then Row's validators run,
\* ix before cells.
from_array(y, array) ==
    LET cells == [i \in 1..Len(array) |-> from_str_value(i - 1, y, <<array[i]>>)]
    IN  IF FirstError(cells) # "none"
        THEN [err |-> FirstError(cells), cells |-> <<>>]
        ELSE IF validate_ix(y) # "none"
        THEN [err |-> validate_ix(y), cells |-> <<>>]
        ELSE IF validate_cells(cells) # "none"
        THEN [err |-> validate_cells(cells), cells |-> <<>>]
        ELSE [err |-> "none", cells |-> [i \in 1..Len(cells) |-> cells[i].value]]

\* ---------------------------------------------------------------- Board

\* Board.validate_rows.
validate_rows(v) == IF Len(v) # N THEN "ValueError" ELSE "none"

\* Board.from_array_of_strings: the rows are built top to bottom, y counting
\* from 0, and the first row that fails ends the construction; then Board's
\* validator runs.
from_array_of_strings(array) ==
    LET rs == [i \in 1..Len(array) |-> from_array(i - 1, array[i])]
    IN  IF FirstError(rs) # "none"
        THEN [err |-> FirstError(rs), rows |-> <<>>]
        ELSE IF validate_rows(rs) # "none"
        THEN [err |-> validate_rows(rs), rows |-> <<>>]
        ELSE [err |-> "none", rows |-> [i \in 1..Len(rs) |-> rs[i].cells]]

\* Board.get_column, as the values of the column's cells from row 0 down.
get_column(b, i) == [r \in 1..Len(b) |-> b[r][i + 1]]

\* The cells of one 3x3 grid as Board.__attrs_post_init__ collects them:
\* [cell for row in rows[y: y + 3] for cell in row.cells[x: x + 3]].
grid_cells(b, x, y) ==
    [k \in 1..(grid_length * grid_length) |->
        b[y + ((k - 1) \div grid_length) + 1][x + ((k - 1) % grid_length) + 1]]

\* range(0, 9, grid_length), the corners of the grids.
grid_starts == {grid_length * k : k \in 0..((N - 1) \div grid_length)}

\* cell.grid.cells: the grid Board.__attrs_post_init__ assigned to the cell,
\* the one whose slices rows[y: y + 3], cells[x: x + 3] hold it.
grid(b, cell) ==
    LET x == CHOOSE s \in grid_starts : s <= cell.x /\ cell.x < s + grid_length
        y == CHOOSE s \in grid_starts : s <= cell.y /\ cell.y < s + grid_length
    IN  grid_cells(b, x, y)

\* Python's None, where a Cell is expected.
None == [x |-> -1, y |-> -1]

\* The inner loop of get_empty_cell: the first empty cell of row y from
\* column x on.
RECURSIVE first_empty_in_row(_, _, _)
first_empty_in_row(b, y, x) ==
    IF x >= Len(b[y + 1]) THEN None
    ELSE IF is_empty(b[y + 1][x + 1]) THEN [x |-> x, y |-> y]
    ELSE first_empty_in_row(b, y, x + 1)

\* The outer loop of get_empty_cell, from row y on.
RECURSIVE first_empty_from_row(_, _)
first_empty_from_row(b, y) ==
    IF y >= Len(b) THEN None
    ELSE IF first_empty_in_row(b, y, 0) # None THEN first_empty_in_row(b, y, 0)
    ELSE first_empty_from_row(b, y + 1)

\* get_empty_cell scanning column by column instead of row by row.
get_empty_cell_by_column(b) ==
    IF \A x \in 0..(N - 1) : \A y \in 0..(N - 1) : ~is_empty(b[y + 1][x + 1])
    THEN None
    ELSE LET x == CHOOSE i \in 0..(N - 1) :
                    /\ \E y \in 0..(N - 1) : is_empty(b[y + 1][i + 1])
                    /\ \A j \in 0..(i - 1) : \A y \in 0..(N - 1) :
                            ~is_empty(b[y + 1][j + 1])
             y == CHOOSE i \in 0..(N - 1) :
                    /\ is_empty(b[i + 1][x + 1])
                    /\ \A j \in 0..(i - 1) : ~is_empty(b[j + 1][x + 1])
         IN  [x |-> x, y |-> y]

\* Board.get_empty_cell.
get_empty_cell(b) == first_empty_from_row(b, 0)

\* is_valid without the check of the cell's 3x3 grid.
is_valid_no_grid(b, test_num, cell) ==
    IF \E i \in 1..Len(b[cell.y + 1]) : b[cell.y + 1][i] = test_num THEN FALSE
    ELSE IF \E i \in 1..Len(get_column(b, cell.x)) :
                get_column(b, cell.x)[i] = test_num THEN FALSE
    ELSE TRUE

\* Board.is_valid.
is_valid(b, test_num, cell) ==
    IF \E i \in 1..Len(b[cell.y + 1]) : b[cell.y + 1][i] = test_num THEN FALSE
    ELSE IF \E i \in 1..Len(get_column(b, cell.x)) :
                get_column(b, cell.x)[i] = test_num THEN FALSE
    ELSE IF \E i \in 1..Len(grid(b, cell)) : grid(b, cell)[i] = test_num THEN FALSE
    ELSE TRUE

\* The candidates tried from 9 down to 1.
candidates_descending == [i \in 1..9 |-> 10 - i]

\* range(1, 10), the candidates of Board.solve in the order it tries them.
candidates == range(1, 10)

\* cell.value = v with the coordinates of the cell exchanged.
set_value_swapped(b, cell, v) ==
    [b EXCEPT ![cell.x + 1] = [@ EXCEPT ![cell.y + 1] = v]]

\* cell.value = v.
set_value(b, cell, v) ==
    [b EXCEPT ![cell.y + 1] = [@ EXCEPT ![cell.x + 1] = v]]

\* The failed trial left in place.
undo_nothing(b, cell) == b

\* cell.value = 0, the undo of Board.solve after a failed recursive call.
undo(b, cell) == set_value(b, cell, 0)

\* ---------------------------------------------------------------- inputs

\* The puzzle of the specification's end-to-end example, as digits.
Classic ==
    << <<0, 0, 3, 0, 2, 0, 6, 0, 0>>,
       <<9, 0, 0, 3, 0, 5, 0, 0, 1>>,
       <<0, 0, 1, 8, 0, 6, 4, 0, 0>>,
       <<0, 0, 8, 1, 0, 2, 9, 0, 0>>,
       <<7, 0, 0, 0, 0, 0, 0, 0, 8>>,
       <<0, 0, 6, 7, 0, 8, 2, 0, 0>>,
       <<0, 0, 2, 6, 0, 9, 5, 0, 0>>,
       <<8, 0, 0, 2, 0, 3, 0, 0, 9>>,
       <<0, 0, 5, 0, 1, 0, 3, 0, 0>> >>

\* A completed grid: the solution of Classic.
Solved ==
    << <<4, 8, 3, 9, 2, 1, 6, 5, 7>>,
       <<9, 6, 7, 3, 4, 5, 8, 2, 1>>,
       <<2, 5, 1, 8, 7, 6, 4, 9, 3>>,
       <<5, 4, 8, 1, 3, 2, 9, 7, 6>>,
       <<7, 2, 9, 5, 6, 4, 1, 3, 8>>,
       <<1, 3, 6, 7, 9, 8, 2, 4, 5>>,
       <<3, 7, 2, 6, 8, 9, 5, 1, 4>>,
       <<8, 1, 4, 2, 5, 3, 7, 6, 9>>,
       <<6, 9, 5, 4, 1, 7, 3, 8, 2>> >>

\* A second completed grid: the first one in the order of the search.
Lexical ==
    << <<1, 2, 3, 4, 5, 6, 7, 8, 9>>,
       <<4, 5, 6, 7, 8, 9, 1, 2, 3>>,
       <<7, 8, 9, 1, 2, 3, 4, 5, 6>>,
       <<2, 1, 4, 3, 6, 5, 8, 9, 7>>,
       <<3, 6, 5, 8, 9, 7, 2, 1, 4>>,
       <<8, 9, 7, 2, 1, 4, 3, 6, 5>>,
       <<5, 3, 1, 6, 4, 2, 9, 7, 8>>,
       <<6, 4, 2, 9, 7, 8, 5, 3, 1>>,
       <<9, 7, 8, 5, 3, 1, 6, 4, 2>> >>

\* The grid with no digit given.
Zeros == [y \in 1..N |-> [x \in 1..N |-> 0]]

\* The holes: cells of the rows 0, 1, ... in the columns 0 and 4.
Hole(k) == [x |-> 4 * (k % 2), y |-> k \div 2]

Holes == {Hole(k) : k \in 0..(MaxHoles - 1)}

\* What a hole is filled with: nothing, or one of the digits taken out.
FillDigits == {0} \cup {Solved[h.y + 1][h.x + 1] : h \in Holes}

Refill(f) ==
    [y \in 1..N |-> [x \in 1..N |->
        IF [x |-> x - 1, y |-> y - 1] \in Holes
        THEN f[[x |-> x - 1, y |-> y - 1]] ELSE Solved[y][x]]]

\* The grids the solver is run on: Solved with its holes filled in every way,
\* the classic puzzle and the empty grid.
Puzzles == {Refill(f) : f \in [Holes -> FillDigits]} \cup {Classic, Zeros}

\* A grid of digits as the array of strings the loader hands over.
Chars(p) == [y \in 1..Len(p) |-> [x \in 1..Len(p[y]) |-> DigitChars[p[y][x] + 1]]]

SolverInputs == {Chars(p) : p \in Puzzles}

\* ---------------------------------------------------------------- state

VARIABLES
    array,      \* the array of strings the Board is (to be) built from
    board,      \* the values of the Board's cells, rows[y].cells[x].value
    stack,      \* the active calls of solve, outermost first: the cell each
                \* works on, its place in range(1, 10), the board at its entry
    pc,         \* where the program is
    result,     \* the value the last return of solve returned
    runs,       \* how many times solve() was called from outside
    atCall,     \* the board when solve() was last called from outside
    trace,      \* the trial placements of the current outside call, in order
    first,      \* the outcome of the first outside call
    built,      \* the outcome of the last construction
    file,       \* the lines of the input file
    pos,        \* how many lines of the file were read
    rows,       \* the row buffer of generate_board_from_file_path
    yielded,    \* the boards the generator has yielded, in order
    source      \* the puzzles the file was written from, and how it ends

vars == <<array, board, stack, pc, result, runs, atCall, trace, first,
          built, file, pos, rows, yielded, source>>

solverVars == <<board, stack, pc, result, runs, atCall, trace, first>>

loaderVars == <<file, pos, rows, yielded, source>>

NoSource == [puzzles |-> <<>>, tail |-> "none"]

NoOutcome == [kind |-> "none", err |-> "none", args |-> <<>>, value |-> 0]

NoFirst == [set |-> FALSE, result |-> FALSE, trace |-> <<>>, board |-> <<>>]

Top == stack[Len(stack)]

Pop == SubSeq(stack, 1, Len(stack) - 1)

\* ---------------------------------------------------------------- solve

Init ==
    /\ array \in SolverInputs
    /\ board = from_array_of_strings(array).rows
    /\ stack = <<>>
    /\ pc = "call"
    /\ result = FALSE
    /\ runs = 1
    /\ atCall = board
    /\ trace = <<>>
    /\ first = NoFirst
    /\ built = NoOutcome
    /\ file = <<>>
    /\ pos = 0
    /\ rows = <<>>
    /\ yielded = <<>>
    /\ source = NoSource

\* solve, lines 146-149: no empty cell, the board is solved.
SolveBase ==
    /\ pc = "call"
    /\ get_empty_cell(board) = None
    /\ result' = TRUE
    /\ pc' = "ret"
    /\ UNCHANGED <<array, board, stack, runs, atCall, trace, first, built>>
    /\ UNCHANGED loaderVars

\* solve, lines 146-151: an empty cell, the for loop starts.
SolveLoop ==
    /\ pc = "call"
    /\ get_empty_cell(board) # None
    /\ stack' = Append(stack, [cell |-> get_empty_cell(board), it |-> 1,
                               entry |-> board])
    /\ pc' = "loop"
    /\ UNCHANGED <<array, board, result, runs, atCall, trace, first, built>>
    /\ UNCHANGED loaderVars

\* solve, lines 151-154: the candidate is valid; it is placed and solve calls
\* itself.
Place ==
    /\ pc = "loop"
    /\ Top.it <= Len(candidates)
    /\ is_valid(board, candidates[Top.it], Top.cell)
    /\ board' = set_value(board, Top.cell, candidates[Top.it])
    /\ trace' = Append(trace, [cell |-> Top.cell, value |-> candidates[Top.it]])
    /\ pc' = "call"
    /\ UNCHANGED <<array, stack, result, runs, atCall, first, built>>
    /\ UNCHANGED loaderVars

\* solve, lines 151-152: the candidate is not valid; the loop goes on.
Skip ==
    /\ pc = "loop"
    /\ Top.it <= Len(candidates)
    /\ ~is_valid(board, candidates[Top.it], Top.cell)
    /\ stack' = [stack EXCEPT ![Len(stack)].it = @ + 1]
    /\ UNCHANGED <<array, board, pc, result, runs, atCall, trace, first, built>>
    /\ UNCHANGED loaderVars

\* solve, line 158: the candidates are exhausted.
ReturnFalse ==
    /\ pc = "loop"
    /\ Top.it > Len(candidates)
    /\ stack' = Pop
    /\ result' = FALSE
    /\ pc' = "ret"
    /\ UNCHANGED <<array, board, runs, atCall, trace, first, built>>
    /\ UNCHANGED loaderVars

\* solve, lines 154-155: the recursive call returned True.
ReturnTrue ==
    /\ pc = "ret"
    /\ stack # <<>>
    /\ result = TRUE
    /\ stack' = Pop
    /\ UNCHANGED <<array, board, pc, result, runs, atCall, trace, first, built>>
    /\ UNCHANGED loaderVars

\* solve, lines 154-156: the recursive call returned False; the cell is
\* emptied and the loop goes on.
Undo ==
    /\ pc = "ret"
    /\ stack # <<>>
    /\ result = FALSE
    /\ board' = undo(board, Top.cell)
    /\ stack' = [stack EXCEPT ![Len(stack)].it = @ + 1]
    /\ pc' = "loop"
    /\ UNCHANGED <<array, result, runs, atCall, trace, first, built>>
    /\ UNCHANGED loaderVars

\* The outermost call returns to its caller (line 178).
Finish ==
    /\ pc = "ret"
    /\ stack = <<>>
    /\ pc' = "done"
    /\ first' = IF first.set THEN first
                ELSE [set |-> TRUE, result |-> result, trace |-> trace,
                      board |-> board]
    /\ UNCHANGED <<array, board, stack, result, runs, atCall, trace, built>>
    /\ UNCHANGED loaderVars

\* The caller calls solve() once more on the same board.
SolveAgain ==
    /\ pc = "done"
    /\ runs < MaxRuns
    /\ runs' = runs + 1
    /\ atCall' = board
    /\ trace' = <<>>
    /\ pc' = "call"
    /\ UNCHANGED <<array, board, stack, result, first, built>>
    /\ UNCHANGED loaderVars

\* The caller builds a new Board from the same array and calls solve() on it.
SolveAnew ==
    /\ pc = "done"
    /\ runs < MaxRuns
    /\ runs' = runs + 1
    /\ board' = from_array_of_strings(array).rows
    /\ atCall' = board'
    /\ trace' = <<>>
    /\ pc' = "call"
    /\ UNCHANGED <<array, stack, result, first, built>>
    /\ UNCHANGED loaderVars

Next ==
    \/ SolveBase
    \/ SolveLoop
    \/ Place
    \/ Skip
    \/ ReturnFalse
    \/ ReturnTrue
    \/ Undo
    \/ Finish
    \/ SolveAgain
    \/ SolveAnew

Spec == Init /\ [][Next]_vars

\* ---------------------------------------------------------------- reference
\* What the claims speak of, stated on the grid itself and not by the code.

Cells == {[x |-> x, y |-> y] : x \in 0..(N - 1), y \in 0..(N - 1)}

Val(b, c) == b[c.y + 1][c.x + 1]

RowMajor(c) == c.y * N + c.x

\* The block of a cell: (y / 3) * 3 + (x / 3).
BlockOf(c) == (c.y \div 3) * 3 + (c.x \div 3)

SameGroup(c, d) == c.y = d.y \/ c.x = d.x \/ BlockOf(c) = BlockOf(d)

Groups ==
    {{c \in Cells : c.y = k} : k \in 0..(N - 1)}
    \cup {{c \in Cells : c.x = k} : k \in 0..(N - 1)}
    \cup {{c \in Cells : BlockOf(c) = k} : k \in 0..(N - 1)}

Empties(b) == {c \in Cells : Val(b, c) = 0}

Full(b) == \A c \in Cells : Val(b, c) # 0

\* Every row, column and block holds each digit 1-9 exactly once.
Valid(b) ==
    \A g \in Groups : \A d \in 1..9 : Cardinality({c \in g : Val(b, c) = d}) = 1

\* Two given digits of the grid conflict.
GivensConflict(b) ==
    \E c \in Cells : Val(b, c) # 0
        /\ \E d \in Cells : d # c /\ SameGroup(c, d) /\ Val(b, d) = Val(b, c)

\* b fills the empty cells of p and nothing else.
Extends(b, p) == \A c \in Cells : Val(p, c) # 0 => Val(b, c) = Val(p, c)

\* The digits an empty cell may take: those no cell of its groups holds.
Free(b, c) ==
    {d \in 1..9 : \A q \in Cells : SameGroup(c, q) => Val(b, q) # d}

\* Every way of filling the empty cells of b, one cell at a time, with digits
\* that are free where they are put.
RECURSIVE Fillings(_)
Fillings(b) ==
    IF Empties(b) = {} THEN {b}
    ELSE LET c == CHOOSE e \in Empties(b) : TRUE
         IN  UNION {Fillings([b EXCEPT ![c.y + 1] = [@ EXCEPT ![c.x + 1] = d]]) :
                        d \in Free(b, c)}

\* The grid has a valid completion: a known completed grid extends it, or
\* filling its empty cells finds one.
HasCompletion(p) ==
    \/ \E k \in {Solved, Lexical} : Valid(k) /\ Extends(k, p)
    \/ \E b \in Fillings(p) : Valid(b)

\* c is the first empty cell of b in row-major order.
IsFirstEmpty(b, c) ==
    /\ c \in Cells
    /\ Val(b, c) = 0
    /\ \A d \in Cells : RowMajor(d) < RowMajor(c) => Val(b, d) # 0

\* The board as built from the array.
Puzzle == from_array_of_strings(array).rows

\* ---------------------------------------------------------------- claims

\* C1: a board that has a valid completion is solved: solve() returns True
\* and leaves no empty cell, every row, column and block holding each digit
\* 1-9 exactly once; the grid of zeros is one such board.
C1_SolvableIsSolved ==
    (pc = "done" /\ HasCompletion(atCall))
        => (result = TRUE /\ Full(board) /\ Valid(board))

\* solve() has returned on the grid of zeros.
C1_Witness ==
    /\ pc = "done"
    /\ atCall = Zeros
    /\ result = TRUE
    /\ Valid(board)

\* C2, as claimed: on a board with no valid completion solve() returns False,
\* and solve() returns True only on a board that satisfies every row, column
\* and block constraint.
C2_TrueOnlyIfValid ==
    pc = "done" =>
        /\ result = TRUE => Valid(board)
        /\ ~HasCompletion(atCall) => result = FALSE

\* C3: a call of solve that returns False leaves the board as it found it,
\* at every level of the recursion and at the outermost one.
C3_FalseRestores ==
    [][/\ (pc = "loop" /\ pc' = "ret")
            => (result' = FALSE /\ board' = Top.entry)
       /\ (pc' = "done" /\ result' = FALSE) => board' = atCall']_vars

\* The outermost call has returned False after placing and taking back values.
C3_Witness ==
    /\ pc = "done"
    /\ result = FALSE
    /\ trace # <<>>
    /\ board = atCall
    /\ Empties(board) # {}

\* C4: solve() never changes a cell that was not empty when it was called; on
\* a full, valid board it returns True at once, and a second solve() after a
\* successful one changes nothing.
C4_GivensKept ==
    /\ \A c \in Cells : Val(atCall, c) # 0 => Val(board, c) = Val(atCall, c)
    /\ (pc = "done" /\ Full(atCall) /\ Valid(atCall))
            => (result = TRUE /\ trace = <<>> /\ board = atCall)
    /\ (runs > 1 /\ first.result /\ atCall = first.board)
            => (board = first.board /\ trace = <<>>)

\* A second solve() has returned on a board the first one had to fill.
C4_Witness ==
    /\ pc = "done"
    /\ runs > 1
    /\ first.result
    /\ first.trace # <<>>
    /\ atCall = first.board

\* C8: get_empty_cell returns the first cell in row-major order that holds 0,
\* returns None exactly when no cell holds 0, and changes no cell.
C8_FirstEmpty ==
    /\ [](/\ get_empty_cell(board) # None
                => IsFirstEmpty(board, get_empty_cell(board))
          /\ get_empty_cell(board) = None <=> Full(board))
    /\ [][pc = "call" => board' = board]_vars

\* get_empty_cell has returned a cell below row 0 while a cell of a later row
\* and an earlier column is empty too.
C8_Witness ==
    /\ pc = "loop"
    /\ Top.cell = get_empty_cell(Top.entry)
    /\ Top.cell.y > 0
    /\ \E c \in Empties(Top.entry) : c.x < Top.cell.x /\ c.y > Top.cell.y

\* The last placement of the trace made in a cell at or before cell c in
\* row-major order: 0 when there is none.
RECURSIVE LastAtOrBefore(_, _, _)
LastAtOrBefore(tr, i, c) ==
    IF i = 0 THEN 0
    ELSE IF RowMajor(tr[i].cell) <= RowMajor(c) THEN i
    ELSE LastAtOrBefore(tr, i - 1, c)

\* C9: every trial placement goes to the first empty cell in row-major order,
\* the values placed in a cell before the search backtracks past it ascend
\* strictly within 1..9, and a solve started again from the same puzzle makes
\* the same placements and ends with the same grid.
C9_SearchOrder ==
    /\ [][(trace' # trace /\ trace' # <<>>) =>
            LET e == trace'[Len(trace')]
                j == LastAtOrBefore(trace, Len(trace), e.cell)
            IN  /\ trace' = Append(trace, e)
                /\ IsFirstEmpty(board, e.cell)
                /\ e.value \in 1..9
                /\ board' = [board EXCEPT ![e.cell.y + 1] =
                                [@ EXCEPT ![e.cell.x + 1] = e.value]]
                /\ (j > 0 /\ trace[j].cell = e.cell) => trace[j].value < e.value]_vars
    /\ []((pc = "done" /\ runs > 1 /\ atCall = Puzzle)
            => (trace = first.trace /\ board = first.board
                /\ result = first.result))

\* A second solve from the same puzzle has ended, and the search had to take
\* back a placement and place a greater value in the same cell.
C9_Witness ==
    /\ pc = "done"
    /\ runs > 1
    /\ atCall = Puzzle
    /\ Empties(atCall) # {}
    /\ result = TRUE
    /\ \E i \in 1..(Len(trace) - 1) :
            trace[i].cell = trace[i + 1].cell /\ trace[i].value < trace[i + 1].value

\* ---------------------------------------------------------------- construction

\* A grid of characters cut or stretched to nrows rows, its row r to len
\* characters: what lies past the grid repeats it from its start.
Reshape(g, nrows, r, len) ==
    [i \in 1..nrows |->
        [k \in 1..(IF i = r THEN len ELSE N) |->
            g[((i - 1) % N) + 1][((k - 1) % N) + 1]]]

\* The grid with the character at row i, place k replaced by ch, where there
\* is such a place.
Smudge(g, i, k, ch) ==
    IF i \in 1..Len(g) /\ k \in 1..Len(g[i])
    THEN [g EXCEPT ![i] = [@ EXCEPT ![k] = ch]]
    ELSE g

Sizes == (N - MaxExtra)..(N + MaxExtra)

BadChars == {"A", " ", "-"}

\* The arrays Board.from_array_of_strings is tried on: the classic puzzle
\* with a wrong number of rows, a row of a wrong length or a character that
\* is no digit, and the grids the solver is run on.
BuildInputs ==
    {Reshape(Chars(Classic), nrows, r, len) :
        nrows \in Sizes, r \in 1..(N + MaxExtra), len \in Sizes \cup {0}}
    \cup {Smudge(Reshape(Chars(Classic), nrows, r, len), i, k, ch) :
            nrows \in Sizes, r \in {2}, len \in Sizes,
            i \in {1, 2, N + 1}, k \in {1, N, N + 1}, ch \in BadChars}
    \cup SolverInputs

InitBuild ==
    /\ array \in BuildInputs
    /\ board = <<>>
    /\ stack = <<>>
    /\ pc = "new"
    /\ result = FALSE
    /\ runs = 0
    /\ atCall = <<>>
    /\ trace = <<>>
    /\ first = NoFirst
    /\ built = NoOutcome
    /\ file = <<>>
    /\ pos = 0
    /\ rows = <<>>
    /\ yielded = <<>>
    /\ source = NoSource

\* Board.from_array_of_strings(array) returns a Board.
Construct ==
    /\ pc = "new"
    /\ array # <<>>
    /\ from_array_of_strings(array).err = "none"
    /\ board' = from_array_of_strings(array).rows
    /\ built' = [kind |-> "Board", err |-> "none", args |-> <<>>, value |-> 0]
    /\ pc' = "built"
    /\ UNCHANGED <<array, stack, result, runs, atCall, trace, first>>
    /\ UNCHANGED loaderVars

\* Board.from_array_of_strings(array) raises.
ConstructRaises ==
    /\ pc = "new"
    /\ array # <<>>
    /\ from_array_of_strings(array).err # "none"
    /\ built' = [kind |-> "Board", err |-> from_array_of_strings(array).err,
                 args |-> <<>>, value |-> 0]
    /\ pc' = "raised"
    /\ UNCHANGED <<array, board, stack, result, runs, atCall, trace, first>>
    /\ UNCHANGED loaderVars

NextBuild == Construct \/ ConstructRaises

SpecBuild == InitBuild /\ [][NextBuild]_vars

\* The coordinates and the values a Cell is constructed with.
CoordInputs == (0 - MaxExtra)..(N - 1 + MaxExtra)

\* Strings that denote a digit 0-9.
DigitStrings == {<<"0">>, <<"5">>, <<"9">>, <<" ", "7">>, <<"+", "3">>}

\* Strings that denote no number, or a number outside 0-9.
OtherStrings == {<<"1", "0">>, <<"-", "1">>, <<"A">>, <<>>, <<" ">>, <<"4", "2">>}

InitCell ==
    /\ array = <<>>
    /\ board = <<>>
    /\ stack = <<>>
    /\ pc = "new"
    /\ result = FALSE
    /\ runs = 0
    /\ atCall = <<>>
    /\ trace = <<>>
    /\ first = NoFirst
    /\ built = NoOutcome
    /\ file = <<>>
    /\ pos = 0
    /\ rows = <<>>
    /\ yielded = <<>>
    /\ source = NoSource

\* Cell.from_str_value(x, y, str_value) returns a Cell.
NewCell ==
    /\ pc = "new"
    /\ array = <<>>
    /\ \E x \in CoordInputs, y \in CoordInputs, s \in DigitStrings \cup OtherStrings :
        /\ from_str_value(x, y, s).err = "none"
        /\ built' = [kind |-> "Cell", err |-> "none", args |-> <<x, y, s>>,
                     value |-> from_str_value(x, y, s).value]
    /\ pc' = "built"
    /\ UNCHANGED <<array, board, stack, result, runs, atCall, trace, first>>
    /\ UNCHANGED loaderVars

\* Cell.from_str_value(x, y, str_value) raises.
NewCellRaises ==
    /\ pc = "new"
    /\ array = <<>>
    /\ \E x \in CoordInputs, y \in CoordInputs, s \in DigitStrings \cup OtherStrings :
        /\ from_str_value(x, y, s).err # "none"
        /\ built' = [kind |-> "Cell", err |-> from_str_value(x, y, s).err,
                     args |-> <<x, y, s>>, value |-> 0]
    /\ pc' = "raised"
    /\ UNCHANGED <<array, board, stack, result, runs, atCall, trace, first>>
    /\ UNCHANGED loaderVars

NextCell == NewCell \/ NewCellRaises

SpecCell == InitCell /\ [][NextCell]_vars

\* The number of rows or the length of a row is not 9.
BadShape(a) == Len(a) # 9 \/ \E i \in 1..Len(a) : Len(a[i]) # 9

\* C5, as claimed: is_valid(v, c) is True exactly when no cell other than c
\* in c's row, column or block holds v.
C5_OthersOnly ==
    pc = "built" =>
        \A c \in Cells : \A v \in 1..9 :
            is_valid(board, v, c) <=>
                ~\E d \in Cells \ {c} : SameGroup(c, d) /\ Val(board, d) = v

\* C5, amended: is_valid(v, c) is True exactly when no cell of c's row,
\* column or block, c itself among them, holds v; for an empty cell c that is
\* when no other cell of them holds v.
C5_SelfIncluded ==
    pc = "built" =>
        \A c \in Cells : \A v \in 1..9 :
            /\ is_valid(board, v, c) <=>
                    ~\E d \in Cells : SameGroup(c, d) /\ Val(board, d) = v
            /\ Val(board, c) = 0 =>
                    (is_valid(board, v, c) <=>
                        ~\E d \in Cells \ {c} : SameGroup(c, d) /\ Val(board, d) = v)

\* is_valid rejects the value a cell holds though no other cell of its row,
\* column or block holds it, and accepts a value for an empty cell.
C5_Witness ==
    /\ pc = "built"
    /\ \E c \in Cells :
        /\ Val(board, c) # 0
        /\ ~is_valid(board, Val(board, c), c)
        /\ ~\E d \in Cells \ {c} : SameGroup(c, d) /\ Val(board, d) = Val(board, c)
    /\ \E c \in Cells : \E v \in 1..9 : Val(board, c) = 0 /\ is_valid(board, v, c)

C7_ValueError ==
    (built.kind = "Cell"
        /\ \/ built.args[3] \in OtherStrings
           \/ built.args[1] \notin 0..8
           \/ built.args[2] \notin 0..8)
        => (pc = "raised" /\ built.err = "ValueError")

\* ---------------------------------------------------------------- loader

\* The first line of the file and the line between two puzzles.
GridLine == <<"G", "r", "i", "d", "\n">>

\* The nine lines of a puzzle.
PuzzleLines(p) == [i \in 1..Len(p) |-> Chars(p)[i] \o <<"\n">>]

\* The lines of the puzzles, a GridLine between each two.
RECURSIVE BodyLines(_)
BodyLines(ps) ==
    IF ps = <<>> THEN <<>>
    ELSE IF Len(ps) = 1 THEN PuzzleLines(ps[1])
    ELSE PuzzleLines(ps[1]) \o <<GridLine>> \o BodyLines(Tail(ps))

\* The file of the puzzles ps: its last line ends with a newline
\* ("newline") or without one ("bare"), or a blank line ("blank") or a
\* further GridLine ("separator") follows it.
FileOf(ps, tail) ==
    LET body == <<GridLine>> \o BodyLines(ps)
        last == body[Len(body)]
    IN  CASE tail = "newline" -> body
          [] tail = "bare" ->
                [body EXCEPT ![Len(body)] = SubSeq(last, 1, Len(last) - 1)]
          [] tail = "blank" -> body \o << <<"\n">> >>
          [] tail = "separator" -> body \o <<GridLine>>

LoaderPuzzles == {Classic, Solved, Zeros}

Sources ==
    {[puzzles |-> ps, tail |-> t] :
        ps \in UNION {[1..n -> LoaderPuzzles] : n \in 1..MaxPuzzles},
        t \in {"newline", "bare", "blank", "separator"}}

InitLoader ==
    /\ source \in Sources
    /\ file = FileOf(source.puzzles, source.tail)
    /\ pos = 0
    /\ rows = <<>>
    /\ yielded = <<>>
    /\ pc = "open"
    /\ array = <<>>
    /\ board = <<>>
    /\ stack = <<>>
    /\ result = FALSE
    /\ runs = 0
    /\ atCall = <<>>
    /\ trace = <<>>
    /\ first = NoFirst
    /\ built = NoOutcome

\* The row buffer kept as it is after a yield.
rows_kept(rs) == rs

\* rows = [] after a yield (line 168).
rows_reset(rs) == <<>>

\* file.readline(): the first line is skipped.
SkipFirstLine ==
    /\ pc = "open"
    /\ pos' = IF Len(file) > 0 THEN 1 ELSE 0
    /\ pc' = "lines"
    /\ UNCHANGED <<array, file, rows, yielded, source, built>>
    /\ UNCHANGED <<board, stack, result, runs, atCall, trace, first>>

\* A line that does not start with G is stripped and appended to the buffer.
ReadRow ==
    /\ pc = "lines"
    /\ pos < Len(file)
    /\ ~startswith(file[pos + 1], "G")
    /\ rows' = Append(rows, strip(file[pos + 1]))
    /\ pos' = pos + 1
    /\ UNCHANGED <<array, file, pc, yielded, source, built>>
    /\ UNCHANGED <<board, stack, result, runs, atCall, trace, first>>

\* A line that starts with G: the Board of the buffer is yielded and the
\* buffer emptied.
ReadSeparator ==
    /\ pc = "lines"
    /\ pos < Len(file)
    /\ startswith(file[pos + 1], "G")
    /\ from_array_of_strings(rows).err = "none"
    /\ array' = rows
    /\ yielded' = Append(yielded, from_array_of_strings(rows).rows)
    /\ rows' = rows_reset(rows)
    /\ pos' = pos + 1
    /\ UNCHANGED <<file, pc, source, built>>
    /\ UNCHANGED <<board, stack, result, runs, atCall, trace, first>>

\* The end of the file: the Board of the buffer is yielded and the generator
\* is exhausted.
EndOfFile ==
    /\ pc = "lines"
    /\ pos = Len(file)
    /\ from_array_of_strings(rows).err = "none"
    /\ array' = rows
    /\ yielded' = Append(yielded, from_array_of_strings(rows).rows)
    /\ pc' = "exhausted"
    /\ UNCHANGED <<file, pos, rows, source, built>>
    /\ UNCHANGED <<board, stack, result, runs, atCall, trace, first>>

\* The buffer makes no Board: from_array_of_strings raises out of the
\* generator, at a separator or at the end of the file.
YieldRaises ==
    /\ pc = "lines"
    /\ IF pos < Len(file) THEN startswith(file[pos + 1], "G") ELSE TRUE
    /\ from_array_of_strings(rows).err # "none"
    /\ array' = rows
    /\ built' = [kind |-> "Board", err |-> from_array_of_strings(rows).err,
                 args |-> <<>>, value |-> 0]
    /\ pc' = "raised"
    /\ UNCHANGED <<file, pos, rows, yielded, source>>
    /\ UNCHANGED <<board, stack, result, runs, atCall, trace, first>>

NextLoader ==
    \/ SkipFirstLine
    \/ ReadRow
    \/ ReadSeparator
    \/ EndOfFile
    \/ YieldRaises

SpecLoader == InitLoader /\ [][NextLoader]_vars

\* The file is a header and puzzles of nine rows with a G line between them.
WellFormed == source.tail \in {"newline", "bare"}

\* The lines starting with G among the lines read after the first.
SeparatorsRead == {i \in 2..pos : startswith(file[i], "G")}

\* C10: from a well-formed file the generator yields one board per puzzle,
\* in file order, each built from that puzzle's nine rows, the buffer
\* starting empty after every separator, the last puzzle yielded at the end
\* of the file; and no board it yields has other than 9 rows.
C10_OneBoardPerPuzzle ==
    /\ \A i \in 1..Len(yielded) :
            Len(yielded[i]) = 9 /\ \A k \in 1..9 : Len(yielded[i][k]) = 9
    /\ WellFormed =>
        /\ pc # "raised"
        /\ Len(yielded) = Cardinality(SeparatorsRead)
                            + (IF pc = "exhausted" THEN 1 ELSE 0)
        /\ Len(yielded) <= Len(source.puzzles)
        /\ \A i \in 1..Len(yielded) : yielded[i] = source.puzzles[i]
        /\ pc = "lines" =>
                /\ Len(yielded) < Len(source.puzzles)
                /\ Len(rows) <= 9
                /\ \A k \in 1..Len(rows) :
                        rows[k] = Chars(source.puzzles[Len(yielded) + 1])[k]
        /\ pc = "exhausted" => Len(yielded) = Len(source.puzzles)

\* Two different puzzles have been yielded in turn, the second at the end of
\* a file whose last line has no newline.
C10_Witness ==
    /\ pc = "exhausted"
    /\ source.tail = "bare"
    /\ Len(yielded) = 2
    /\ yielded[1] = Classic
    /\ yielded[2] = Solved

====
